---- MODULE Spec2Model ----
(***************************************************************************)
(* Streaming top-10 aggregations of src/src/q1_memory.py, q2_memory.py and *)
(* q3_memory.py: one forward pass over a newline-delimited JSON file that  *)
(* keeps only collections.Counter tables, followed by Counter.most_common. *)
(*                                                                         *)
(* A Counter is an insertion-ordered dict: it is modelled as the sequence  *)
(* of its items <<[key, n], ...>> in insertion order.  A decoded line is a *)
(* record that says what json.loads made of it and, for an object, what    *)
(* each field the three functions read holds.                              *)
(*                                                                         *)
(* The DuckDB variants src/src/q1_time.py and src/src/q2_time.py run over  *)
(* the same file (variable `time`), and a second run of q3_memory reads    *)
(* the file with [] and an absent mentionedUsers swapped (variable `twin`).*)
(***************************************************************************)
EXTENDS Integers, Sequences, FiniteSets, TLC

VARIABLES
    prog,              \* which function runs: "q1", "q2" or "q3"
    pc,                \* "read" (in the for loop), "done" (returned), "raised" (uncaught exception)
    more,              \* how many more lines the file may still hold
    date_counts,       \* q1_memory: Counter  date -> tweets
    date_user_counts,  \* q1_memory: defaultdict(Counter)  date -> username -> tweets
    emoji_counter,     \* q2_memory: Counter  emoji -> occurrences
    mention_counter,   \* q3_memory: Counter  username -> mentions
    result,            \* the list the function returned (<<>> before it returns)
    line,              \* the line read last (NoLine before the first)
    how,               \* how that line ended: "ok", "continue", "except" or "raise"
    prev,              \* history: the four tables as they were before that line
    seen,              \* history: the keys of the function's table, in order of first observation
    authors,           \* history (q1): the <<date, username>> pairs, in order of first observation
    nonempty,          \* history: how many records gave the key extractor a non-empty result
    observed,          \* history: how many key occurrences the pass has extracted
    ok_occ,            \* history: per key, its occurrences in the lines that ended "ok"
    time,              \* q1_time / q2_time run over the same file
    twin               \* q3_memory run over the file with [] and no mentionedUsers swapped

vars == <<prog, pc, more, date_counts, date_user_counts, emoji_counter,
          mention_counter, result, line, how, prev, seen, authors,
          nonempty, observed, ok_occ, time, twin>>

----------------------------------------------------------------------------
(* Bounds of the model *)

MaxLines == 3
NumKeys == 3
NumUsers == 2
NumRankKeys == 11

(* Program constants *)

TopN == 10
ZWJ == 8205
VS16 == 65039

----------------------------------------------------------------------------
(* collections.Counter *)

Min(a, b) == IF a < b THEN a ELSE b

Keys(c) == {c[i].key : i \in DOMAIN c}

Has(c, k) == \E i \in DOMAIN c : c[i].key = k

IndexOf(c, k) == CHOOSE i \in DOMAIN c : c[i].key = k

\* Counter.__getitem__ / __missing__: an absent key reads as 0.
Get(c, k) == IF Has(c, k) THEN c[IndexOf(c, k)].n ELSE 0

\* Variant of Incr: the incremented key is taken out and put back at the end
\* (c[k] = c.pop(k, 0) + 1).
IncrMoveToEnd(c, k) ==
    Append(SelectSeq(c, LAMBDA x : x.key # k), [key |-> k, n |-> Get(c, k) + 1])

\* Variant of Incr: the table as a list of pairs to which every observation
\* appends a pair (items.append((k, n + 1))).
IncrAppend(c, k) == Append(c, [key |-> k, n |-> Get(c, k) + 1])

\* c[k] += 1 : a present key keeps its place, a new key is appended.
Incr(c, k) ==
    IF Has(c, k)
    THEN [c EXCEPT ![IndexOf(c, k)].n = @ + 1]
    ELSE Append(c, [key |-> k, n |-> 1])

\* Variant of Update: each distinct element counted once (update(set(iterable))).
RECURSIVE UpdateDistinct(_, _)
UpdateDistinct(c, ks) ==
    IF ks = <<>> THEN c
    ELSE UpdateDistinct(IF \E i \in DOMAIN Tail(ks) : Tail(ks)[i] = Head(ks)
                        THEN c ELSE Incr(c, Head(ks)),
                        Tail(ks))

\* Counter.update(iterable): c[k] += 1 for each element, in order.
RECURSIVE Update(_, _)
Update(c, ks) ==
    IF ks = <<>> THEN c ELSE Update(Incr(c, Head(ks)), Tail(ks))

\* Variant of InsertDesc: x goes before the items whose n equals x.n.
RECURSIVE InsertDescBefore(_, _)
InsertDescBefore(sorted, x) ==
    IF sorted = <<>> THEN <<x>>
    ELSE IF Head(sorted).n > x.n
         THEN <<Head(sorted)>> \o InsertDescBefore(Tail(sorted), x)
         ELSE <<x>> \o sorted

\* Place item x in a list sorted by descending n, after every item whose n is
\* >= x.n : what a stable sort with reverse=True does with equal counts.
RECURSIVE InsertDesc(_, _)
InsertDesc(sorted, x) ==
    IF sorted = <<>> THEN <<x>>
    ELSE IF Head(sorted).n >= x.n
         THEN <<Head(sorted)>> \o InsertDesc(Tail(sorted), x)
         ELSE <<x>> \o sorted

RECURSIVE SortDesc(_)
SortDesc(c) ==
    IF c = <<>> THEN <<>>
    ELSE InsertDesc(SortDesc(SubSeq(c, 1, Len(c) - 1)), c[Len(c)])

\* Variants of most_common: the first n items as they stand in the table;
\* the n items with the lowest counts (the sort without reverse=True).
most_common_unsorted(c, n) == SubSeq(c, 1, Min(n, Len(c)))

least_common(c, n) ==
    LET s == SortDesc(c)
    IN  [i \in 1..Min(n, Len(c)) |-> s[Len(s) + 1 - i]]

\* Counter.most_common(n) = heapq.nlargest(n, items, key=count), which is
\* sorted(items, key=count, reverse=True)[:n].
most_common(c, n) == SubSeq(SortDesc(c), 1, Min(n, Len(c)))

\* defaultdict(Counter): d[k][u] += 1 creates d[k] = Counter() when k is new.
Touch(d, k) == IF Has(d, k) THEN d ELSE Append(d, [key |-> k, users |-> <<>>])

Users(d, k) == IF Has(d, k) THEN d[IndexOf(d, k)].users ELSE <<>>

\* Variant of NestedIncr: the author's count is read and not stored
\* (d[k][u] + 1): the defaultdict makes d[k], which stays as it was.
NestedIncrLost(d, k, u) == Touch(d, k)

NestedIncr(d, k, u) ==
    LET t == Touch(d, k)
    IN  [t EXCEPT ![IndexOf(t, k)].users = Incr(@, u)]

Tables(dc, duc, ec, mc) ==
    [date_counts |-> dc, date_user_counts |-> duc,
     emoji_counter |-> ec, mention_counter |-> mc]

----------------------------------------------------------------------------
(* Decoded lines *)

Absent == [t |-> "missing"]
Null == [t |-> "null"]

\* What json.loads(line) gives: a JSONDecodeError ("invalid": text that is
\* not JSON, a blank line), a value that is no dict ("nonobject"), or a dict
\* of which the model keeps the fields the three functions read.
Line(j, d, u, c, r, m) ==
    [json |-> j, date |-> d, user |-> u, content |-> c,
     renderedContent |-> r, mentionedUsers |-> m]

NoLine == Line("none", Absent, Absent, Absent, Absent, Absent)
InvalidLine == Line("invalid", Absent, Absent, Absent, Absent, Absent)
NonObjectLine == Line("nonobject", Absent, Absent, Absent, Absent, Absent)

\* An ISO-8601 date-time string: its calendar day, its hour, and whether it
\* ends in "Z" (TRUE) or in "+00:00" (FALSE).
Iso(day, hour, z) == [t |-> "iso", day |-> day, hour |-> hour, z |-> z]
BadDate == [t |-> "badstr"]       \* a string fromisoformat rejects
NonStr == [t |-> "nonstr"]        \* a truthy value that is no string (a number)

\* A username: a non-empty string, "" ("falsy"), null, absent, or a non-empty
\* list (truthy, and unhashable).
Name(u) == [t |-> "str", v |-> u]
FalsyName == [t |-> "falsy"]
ListName == [t |-> "list"]

\* A user / mention object {"username": ...}, and a value that is no dict.
Dict(username) == [t |-> "dict", username |-> username]
NonDict == [t |-> "nondict"]

\* A string as the sequence of its code points.
Str(cps) == [t |-> "str", cps |-> cps]

\* mentionedUsers: a list of entries, or a truthy value that cannot be
\* iterated (a number).
List(items) == [t |-> "list", items |-> items]
NonIterable == [t |-> "noniter"]

Q1Rec(d, u) == Line("object", d, u, Absent, Absent, Absent)
Q2Rec(c, r) == Line("object", Absent, Absent, c, r, Absent)
Q3Rec(m) == Line("object", Absent, Absent, Absent, Absent, m)

----------------------------------------------------------------------------
(* q1_memory: one line of the for loop *)

Out(t, h) == [tables |-> t, how |-> h]

\* date_str.replace('Z', '+00:00')
ReplaceZ(s) == [s EXCEPT !.z = FALSE]

\* datetime.fromisoformat(...).date(): the time of day is dropped.
DateOf(s) == ReplaceZ(s).day

\* `not x` for the values a field can hold.
Falsy(x) == x.t \in {"missing", "null", "falsy"} \/ (x.t = "str" /\ "cps" \in DOMAIN x /\ x.cps = <<>>)

Q1Body(t, ln) ==
    IF ln.json = "invalid" THEN Out(t, "except")            \* JSONDecodeError
    ELSE IF ln.json = "nonobject" THEN Out(t, "raise")      \* AttributeError: no .get
    ELSE IF Falsy(ln.date) THEN Out(t, "continue")
    ELSE IF ln.date.t = "nonstr" THEN Out(t, "raise")       \* AttributeError: no .replace
    ELSE IF ln.date.t = "badstr" THEN Out(t, "except")      \* ValueError
    ELSE IF ln.user.t = "missing" THEN Out(t, "continue")   \* {}.get('username', '')
    ELSE IF ln.user.t # "dict" THEN Out(t, "raise")         \* AttributeError: no .get
    ELSE IF Falsy(ln.user.username) THEN Out(t, "continue")
    ELSE LET d == DateOf(ln.date)
             dc == Incr(t.date_counts, d)
         IN  IF ln.user.username.t = "list"
             THEN \* line 97 has run; line 98 raises TypeError (unhashable)
                  \* after date_user_counts[d] was created
                  Out([t EXCEPT !.date_counts = dc,
                                !.date_user_counts = Touch(@, d)], "raise")
             ELSE Out([t EXCEPT !.date_counts = dc,
                                !.date_user_counts =
                                    NestedIncr(@, d, ln.user.username.v)], "ok")

----------------------------------------------------------------------------
(* q2_memory: one line of the for loop *)

\* [\p{Emoji_Presentation}\p{Extended_Pictographic}] : the code points that
\* stand for the emoji class.
\* U+1F600 onwards.
Emoji(i) == 128511 + i
Pictographic == {Emoji(i) : i \in 1..(NumRankKeys + 1)}
CodePoint(n) == n
Letter == CodePoint(120)

At(s, i) == IF i \in DOMAIN s THEN s[i] ELSE -1

\* (?:\uFE0F)?
SkipVS(s, i) == IF At(s, i) = VS16 THEN i + 1 ELSE i

\* (?:\u200d[class]\uFE0F?)* from position i: where the match ends.
RECURSIVE MatchJoined(_, _)
MatchJoined(s, i) ==
    IF At(s, i) = ZWJ /\ At(s, i + 1) \in Pictographic
    THEN MatchJoined(s, SkipVS(s, i + 2))
    ELSE i

\* EMOJI_PATTERN.findall(content): the non-overlapping matches, left to right.
RECURSIVE FindFrom(_, _)
FindFrom(s, i) ==
    IF i > Len(s) THEN <<>>
    ELSE IF s[i] \in Pictographic
         THEN LET e == MatchJoined(s, SkipVS(s, i + 1))
              IN  <<SubSeq(s, i, e - 1)>> \o FindFrom(s, e)
         ELSE FindFrom(s, i + 1)

findall(s) == FindFrom(s, 1)

\* tweet.get('content', '') or tweet.get('renderedContent', '')
Content(ln) == IF Falsy(ln.content) THEN ln.renderedContent ELSE ln.content

Q2Body(t, ln) ==
    IF ln.json = "invalid" THEN Out(t, "except")            \* JSONDecodeError
    ELSE IF ln.json = "nonobject" THEN Out(t, "raise")      \* AttributeError: no .get
    ELSE LET content == Content(ln)
         IN  IF Falsy(content) THEN Out(t, "ok")
             ELSE IF content.t # "str" THEN Out(t, "raise") \* TypeError in findall
             ELSE Out([t EXCEPT !.emoji_counter = Update(@, findall(content.cps))], "ok")

----------------------------------------------------------------------------
(* q3_memory: one line of the for loop *)

\* for user in mentioned_users: ... ; a username that cannot be hashed ends
\* the loop with a TypeError, which the except clause catches.
RECURSIVE MentionLoop(_, _)
MentionLoop(mc, items) ==
    IF items = <<>> THEN [counter |-> mc, how |-> "ok"]
    ELSE LET user == Head(items)
         IN  IF user.t # "dict" \/ user.username.t = "missing"
             THEN MentionLoop(mc, Tail(items))
             ELSE IF Falsy(user.username)
             THEN MentionLoop(mc, Tail(items))
             ELSE IF user.username.t = "list"
             THEN [counter |-> mc, how |-> "except"]
             ELSE MentionLoop(Incr(mc, user.username.v), Tail(items))

\* Variant of Q3Body: the field is read without the default [] and a method
\* of the value is called (tweet.get('mentionedUsers').copy()), which the
\* None of an absent field does not have: an AttributeError, not caught.
Q3BodyNoDefault(t, ln) ==
    IF ln.json = "invalid" THEN Out(t, "except")
    ELSE IF ln.json = "nonobject" THEN Out(t, "raise")
    ELSE LET mentioned_users == ln.mentionedUsers
         IN  IF mentioned_users.t \in {"missing", "null"} THEN Out(t, "raise")
             ELSE IF mentioned_users.t = "noniter" THEN Out(t, "except")
             ELSE LET r == MentionLoop(t.mention_counter, mentioned_users.items)
                  IN  Out([t EXCEPT !.mention_counter = r.counter], r.how)

Q3Body(t, ln) ==
    IF ln.json = "invalid" THEN Out(t, "except")            \* JSONDecodeError
    ELSE IF ln.json = "nonobject" THEN Out(t, "raise")      \* AttributeError: no .get
    ELSE LET mentioned_users == ln.mentionedUsers
         IN  IF mentioned_users.t \in {"missing", "null"} THEN Out(t, "ok")
             ELSE IF mentioned_users.t = "noniter" THEN Out(t, "except")  \* TypeError
             ELSE LET r == MentionLoop(t.mention_counter, mentioned_users.items)
                  IN  Out([t EXCEPT !.mention_counter = r.counter], r.how)

----------------------------------------------------------------------------
(* The end of each function: lines 104-114, 99-100, 93-94 *)

\* [date for date, _ in date_counts.most_common(10)]
top_10_dates(dc) == [i \in 1..Min(TopN, Len(dc)) |-> most_common(dc, TopN)[i].key]

\* Variant of NoAuthor: the first top date is looked up before the loop
\* (date_counts.most_common(1)[0]), an IndexError on an empty table too.
NoAuthorOrNoDate(dc, duc) ==
    \/ dc = <<>>
    \/ \E i \in DOMAIN top_10_dates(dc) : Users(duc, top_10_dates(dc)[i]) = <<>>

\* date_user_counts[date_obj].most_common(1)[0] is an IndexError when the
\* nested Counter is empty.
NoAuthor(dc, duc) ==
    \E i \in DOMAIN top_10_dates(dc) : Users(duc, top_10_dates(dc)[i]) = <<>>

\* date_user_counts[date_obj] in the loop of lines 108-112: the defaultdict
\* makes an empty Counter for a date it lacks, and the loop stops at the
\* first date whose Counter is empty.
RECURSIVE LookUp(_, _)
LookUp(duc, dates) ==
    IF dates = <<>> THEN duc
    ELSE LET d == Touch(duc, Head(dates))
         IN  IF Users(d, Head(dates)) = <<>> THEN d ELSE LookUp(d, Tail(dates))

\* Variant of Q1Result: the author who posted first under the date.
Q1ResultFirstAuthor(dc, duc) ==
    LET top == top_10_dates(dc)
    IN  [i \in DOMAIN top |-> <<top[i], Users(duc, top[i])[1].key>>]

Q1Result(dc, duc) ==
    LET top == top_10_dates(dc)
    IN  [i \in DOMAIN top |-> <<top[i], most_common(Users(duc, top[i]), 1)[1].key>>]

\* emoji_counter.most_common(10), mention_counter.most_common(10): (key, count) pairs.
Pairs(c) ==
    LET top == most_common(c, TopN)
    IN  [i \in DOMAIN top |-> <<top[i].key, top[i].n>>]

----------------------------------------------------------------------------
(* q1_time and q2_time: the DuckDB queries of src/src/q1_time.py and       *)
(* src/src/q2_time.py over the same file.  A SQL table is modelled as the  *)
(* bag of its rows (a function row -> multiplicity); SQL NULL is Null.     *)

\* A column of read_json_auto is NULL in a row whose line lacks the key or
\* holds JSON null.
IsNull(x) == x.t \in {"missing", "null"}

\* The lines read_json_auto and the expressions over its columns take: a
\* line that is no JSON, or a date string CAST rejects, is a duckdb.Error.
\* The lines one of the memory functions aborts on are left out as well.
Readable(p, ln) ==
    /\ ln.json = "object"
    /\ IF p = "q1"
       THEN /\ ln.date.t \in {"iso", "missing", "null"}
            /\ ln.user.t \in {"dict", "missing"}
            /\ ln.user.t = "dict" =>
                    ln.user.username.t \in {"str", "falsy", "null", "missing"}
       ELSE /\ ln.content.t \in {"str", "missing", "null"}
            /\ ln.renderedContent.t \in {"str", "missing", "null"}

\* The columns a line gives the table, of those the query names.
Columns(p, ln) ==
    IF p = "q1"
    THEN {c \in {"date", "user"} : ln[c].t # "missing"}
    ELSE {c \in {"content", "renderedContent"} : ln[c].t # "missing"}

SqlDate(day) == [t |-> "date", day |-> day]

\* CAST(substr(date, 1, 10) AS DATE): the calendar day the string starts with.
CastDate(d) == IF IsNull(d) THEN Null ELSE SqlDate(d.day)

\* json_extract_string(user, '$.username')
json_extract_string(user) ==
    IF user.t = "dict" /\ ~IsNull(user.username) THEN user.username ELSE Null

\* One row of the CTE `parsed`.
ParsedRow(ln) == <<CastDate(ln.date), json_extract_string(ln.user)>>

NoRows == [r \in {} |-> 0]

AddRow(rows, r) ==
    [k \in DOMAIN rows \cup {r} |->
        (IF k \in DOMAIN rows THEN rows[k] ELSE 0) + (IF k = r THEN 1 ELSE 0)]

\* COUNT(*) over the rows in rs.
RECURSIVE CountRows(_, _)
CountRows(rows, rs) ==
    IF rs = {} THEN 0
    ELSE LET r == CHOOSE x \in rs : TRUE
         IN  rows[r] + CountRows(rows, rs \ {r})

\* SELECT date, COUNT(*) AS total_tweets FROM parsed GROUP BY date
total_tweets(parsed) ==
    [d \in {r[1] : r \in DOMAIN parsed} |->
        CountRows(parsed, {r \in DOMAIN parsed : r[1] = d})]

\* ORDER BY total_tweets DESC LIMIT 10: the sets of dates the CTE
\* `date_counts` may hold (SQL leaves the order of equal counts open).
time_date_counts(parsed) ==
    LET tt == total_tweets(parsed)
    IN  {S \in SUBSET DOMAIN tt :
            /\ Cardinality(S) = Min(TopN, Cardinality(DOMAIN tt))
            /\ \A a \in S, b \in DOMAIN tt \ S : tt[a] >= tt[b]}

\* ROW_NUMBER() OVER (PARTITION BY p.date ORDER BY COUNT(*) DESC) = 1 : the
\* usernames that may get rank 1 under date d (NULL is a group like any other).
RankOne(parsed, d) ==
    {r[2] : r \in {x \in DOMAIN parsed :
                     /\ x[1] = d
                     /\ \A y \in DOMAIN parsed : y[1] = d => parsed[x] >= parsed[y]}}

\* ORDER BY date DESC
OrderByDateDesc(ds) ==
    CHOOSE s \in [1..Cardinality(ds) -> ds] :
        \A i, j \in 1..Cardinality(ds) : i < j => s[i].day > s[j].day

\* The lists q1_time may return: the INNER JOIN on p.date = dc.date drops
\* the NULL date; one row per date, the dates in descending order.
q1_time_results(parsed) ==
    UNION {LET ds == OrderByDateDesc(S \ {Null})
           IN  {[i \in DOMAIN ds |-> <<ds[i].day, f[ds[i]]>>] :
                   f \in {g \in [S \ {Null} -> {r[2] : r \in DOMAIN parsed}] :
                             \A d \in S \ {Null} : g[d] \in RankOne(parsed, d)}}
           : S \in time_date_counts(parsed)}

\* COALESCE(content, renderedContent, '')
Coalesce(content, renderedContent) ==
    IF ~IsNull(content) THEN content
    ELSE IF ~IsNull(renderedContent) THEN renderedContent
    ELSE Str(<<>>)

\* q2_time, one row of result_df: the WHERE clause of lines 96-97, then
\* `if content:` and emoji_counter.update(EMOJI_PATTERN.findall(content)).
Q2TimeRow(ec, ln) ==
    IF IsNull(ln.content) /\ IsNull(ln.renderedContent) THEN ec
    ELSE LET content == Coalesce(ln.content, ln.renderedContent)
         IN  IF Falsy(content) THEN ec ELSE Update(ec, findall(content.cps))

\* The state of the query: "read" while the file is read, "error" after a
\* duckdb.Error, "done" once the function returned.
TimeStart ==
    [pc |-> "read", columns |-> {}, parsed |-> NoRows, emoji_counter |-> <<>>,
     result |-> <<>>]

TimeLine(p, tm, ln) ==
    IF p = "q3" \/ tm.pc # "read" THEN tm
    ELSE IF ~Readable(p, ln) THEN [tm EXCEPT !.pc = "error"]
    ELSE [tm EXCEPT
            !.columns = @ \cup Columns(p, ln),
            !.parsed = IF p = "q1" THEN AddRow(@, ParsedRow(ln)) ELSE @,
            !.emoji_counter = IF p = "q2" THEN Q2TimeRow(@, ln) ELSE @]

----------------------------------------------------------------------------
(* What a line holds, read off the line itself (history only) *)

\* The count table of the running function.
Table(p, t) ==
    CASE p = "q1" -> t.date_counts
      [] p = "q2" -> t.emoji_counter
      [] p = "q3" -> t.mention_counter

IsName(x) == x.t = "dict" /\ x.username.t = "str"
IsBad(x) == x.t = "dict" /\ x.username.t = "list"

RECURSIVE NamesOf(_)
NamesOf(items) ==
    IF items = <<>> THEN <<>>
    ELSE (IF IsName(Head(items)) THEN <<Head(items).username.v>> ELSE <<>>)
         \o NamesOf(Tail(items))

RECURSIVE UpToBad(_)
UpToBad(items) ==
    IF items = <<>> \/ IsBad(Head(items)) THEN <<>>
    ELSE <<Head(items)>> \o UpToBad(Tail(items))

\* The keys the record holds for the function's statistic.
Extracted(p, ln) ==
    IF ln.json # "object" THEN <<>>
    ELSE CASE p = "q1" ->
                IF ln.date.t = "iso" /\ IsName(ln.user) THEN <<ln.date.day>> ELSE <<>>
           [] p = "q2" ->
                IF Content(ln).t = "str" THEN findall(Content(ln).cps) ELSE <<>>
           [] p = "q3" ->
                IF ln.mentionedUsers.t = "list" THEN NamesOf(ln.mentionedUsers.items) ELSE <<>>

\* The occurrences the pass reaches: in q3_memory those before the first
\* entry whose username cannot be hashed; in q1_memory the date of a record
\* whose username is truthy (line 97 runs before the username is hashed).
Reached(p, ln) ==
    IF p = "q3" /\ ln.json = "object" /\ ln.mentionedUsers.t = "list"
    THEN NamesOf(UpToBad(ln.mentionedUsers.items))
    ELSE IF p = "q1" /\ ln.json = "object" /\ ln.date.t = "iso" /\ IsBad(ln.user)
    THEN <<ln.date.day>>
    ELSE Extracted(p, ln)

Occurrences(ks, k) == Cardinality({i \in DOMAIN ks : ks[i] = k})

RECURSIVE AddSeen(_, _)
AddSeen(sn, ks) ==
    IF ks = <<>> THEN sn
    ELSE AddSeen(IF \E i \in DOMAIN sn : sn[i] = Head(ks) THEN sn ELSE Append(sn, Head(ks)),
                 Tail(ks))

Tally(f, ks) ==
    LET dom == DOMAIN f \cup {ks[i] : i \in DOMAIN ks}
    IN  [k \in dom |-> (IF k \in DOMAIN f THEN f[k] ELSE 0) + Occurrences(ks, k)]

----------------------------------------------------------------------------
(* The state, and one iteration of `for line in f` *)

Cur ==
    [prog |-> prog, pc |-> pc, more |-> more,
     tables |-> Tables(date_counts, date_user_counts, emoji_counter, mention_counter),
     result |-> result, line |-> line, how |-> how, prev |-> prev,
     seen |-> seen, authors |-> authors, nonempty |-> nonempty,
     observed |-> observed, ok_occ |-> ok_occ, time |-> time, twin |-> twin]

Empty == Tables(<<>>, <<>>, <<>>, <<>>)

\* The stream that differs from the one read in that a record whose
\* mentionedUsers is [] has no such field, and the other way round.
Swap(ln) ==
    IF ln = Q3Rec(List(<<>>)) THEN Q3Rec(Absent)
    ELSE IF ln = Q3Rec(Absent) THEN Q3Rec(List(<<>>))
    ELSE ln

\* q3_memory over that stream: lines 67, 69-91 and 94.
TwinStart == [pc |-> "read", mention_counter |-> <<>>, result |-> <<>>]

TwinLine(tw, ln) ==
    IF tw.pc # "read" THEN tw
    ELSE LET o == Q3Body([Empty EXCEPT !.mention_counter = tw.mention_counter], Swap(ln))
         IN  [tw EXCEPT !.pc = IF o.how = "raise" THEN "raised" ELSE "read",
                        !.mention_counter = o.tables.mention_counter]

TwinReturn(tw) ==
    IF tw.pc # "read" THEN tw
    ELSE [tw EXCEPT !.pc = "done", !.result = Pairs(tw.mention_counter)]

\* The state on entering the for loop: the Counters of lines 68-71, 77, 67.
Start(p, n) ==
    [prog |-> p, pc |-> "read", more |-> n, tables |-> Empty,
     result |-> <<>>, line |-> NoLine, how |-> "ok", prev |-> Empty,
     seen |-> <<>>, authors |-> <<>>, nonempty |-> 0, observed |-> 0,
     ok_occ |-> <<>>, time |-> TimeStart, twin |-> TwinStart]

Body(p, t, ln) ==
    CASE p = "q1" -> Q1Body(t, ln)
      [] p = "q2" -> Q2Body(t, ln)
      [] p = "q3" -> Q3Body(t, ln)

Step(s, ln) ==
    LET o == Body(s.prog, s.tables, ln)
        ok == o.how = "ok"
        ks == Extracted(s.prog, ln)
    IN  [s EXCEPT
            !.pc = IF o.how = "raise" THEN "raised" ELSE "read",
            !.more = @ - 1,
            !.tables = o.tables,
            !.line = ln,
            !.how = o.how,
            !.prev = s.tables,
            !.seen = AddSeen(@, Reached(s.prog, ln)),
            !.authors = IF ok /\ s.prog = "q1"
                        THEN AddSeen(@, <<<<ln.date.day, ln.user.username.v>>>>)
                        ELSE @,
            !.nonempty = IF ok /\ ks # <<>> THEN @ + 1 ELSE @,
            !.observed = @ + Len(Reached(s.prog, ln)),
            !.ok_occ = IF ok THEN Tally(@, ks) ELSE @,
            !.time = TimeLine(s.prog, @, ln),
            !.twin = IF s.prog = "q3" THEN TwinLine(@, ln) ELSE @]

RECURSIVE Run(_, _)
Run(s, lines) == IF lines = <<>> THEN s ELSE Run(Step(s, Head(lines)), Tail(lines))

Is(s) ==
    /\ prog = s.prog /\ pc = s.pc /\ more = s.more
    /\ date_counts = s.tables.date_counts
    /\ date_user_counts = s.tables.date_user_counts
    /\ emoji_counter = s.tables.emoji_counter
    /\ mention_counter = s.tables.mention_counter
    /\ result = s.result /\ line = s.line /\ how = s.how /\ prev = s.prev
    /\ seen = s.seen /\ authors = s.authors /\ nonempty = s.nonempty
    /\ observed = s.observed /\ ok_occ = s.ok_occ
    /\ time = s.time /\ twin = s.twin

Becomes(s) ==
    /\ prog' = s.prog /\ pc' = s.pc /\ more' = s.more
    /\ date_counts' = s.tables.date_counts
    /\ date_user_counts' = s.tables.date_user_counts
    /\ emoji_counter' = s.tables.emoji_counter
    /\ mention_counter' = s.tables.mention_counter
    /\ result' = s.result /\ line' = s.line /\ how' = s.how /\ prev' = s.prev
    /\ seen' = s.seen /\ authors' = s.authors /\ nonempty' = s.nonempty
    /\ observed' = s.observed /\ ok_occ' = s.ok_occ
    /\ time' = s.time /\ twin' = s.twin

----------------------------------------------------------------------------
(* The lines the model feeds the three functions *)

Days == 1..NumKeys
UserIds == 1..NumUsers

Q1Lines ==
    {Q1Rec(Iso(d, 0, TRUE), Dict(Name(u))) : d \in Days, u \in UserIds}
    \cup {Q1Rec(Iso(d, 23, FALSE), Dict(Name(1))) : d \in Days}
    \cup {Q1Rec(x, Dict(Name(1))) : x \in {Absent, Null, BadDate, NonStr}}
    \cup {Q1Rec(Iso(1, 0, TRUE), u) :
            u \in {Absent, Null, NonDict, Dict(Absent), Dict(Null),
                   Dict(FalsyName), Dict(ListName)}}
    \cup {InvalidLine, NonObjectLine}

A == Emoji(1)
B == Emoji(2)

Texts ==
    {<<>>, <<Letter>>, <<A, A, B>>, <<A, VS16>>, <<A, ZWJ, B>>, <<ZWJ, A>>,
     <<Letter, B, Letter>>}
    \cup {<<Emoji(k)>> : k \in 1..NumKeys}

Q2Lines ==
    {Q2Rec(Str(x), Absent) : x \in Texts}
    \cup {Q2Rec(c, r) : c \in {Absent, Null, Str(<<>>)},
                        r \in {Absent, Null, NonStr, Str(<<B>>)}}
    \cup {Q2Rec(NonStr, Absent)}
    \cup {InvalidLine, NonObjectLine}

Entries == {Dict(Name(k)) : k \in 1..NumKeys} \cup {Dict(ListName)}

Q3Lines ==
    {Q3Rec(List(<<x>>)) : x \in Entries}
    \cup {Q3Rec(List(<<x, y>>)) : x \in Entries, y \in Entries}
    \cup {Q3Rec(List(<<x>>)) : x \in {NonDict, Dict(Absent), Dict(Null), Dict(FalsyName)}}
    \cup {Q3Rec(m) : m \in {Absent, Null, NonIterable, List(<<>>)}}
    \cup {InvalidLine, NonObjectLine}

----------------------------------------------------------------------------
(* Actions *)

q1_memory_line(ln) ==
    /\ prog = "q1" /\ pc = "read" /\ more > 0
    /\ Becomes(Step(Cur, ln))

q2_memory_line(ln) ==
    /\ prog = "q2" /\ pc = "read" /\ more > 0
    /\ Becomes(Step(Cur, ln))

q3_memory_line(ln) ==
    /\ prog = "q3" /\ pc = "read" /\ more > 0
    /\ Becomes(Step(Cur, ln))

\* The file is exhausted: lines 104-114.
q1_memory_return ==
    /\ prog = "q1" /\ pc = "read"
    /\ LET looked == LookUp(date_user_counts, top_10_dates(date_counts))
       IN  IF NoAuthor(date_counts, date_user_counts)
           THEN Becomes([Cur EXCEPT !.pc = "raised",
                                    !.tables.date_user_counts = looked])
           ELSE Becomes([Cur EXCEPT !.pc = "done",
                                    !.tables.date_user_counts = looked,
                                    !.result = Q1Result(date_counts, date_user_counts)])

q2_memory_return ==
    /\ prog = "q2" /\ pc = "read"
    /\ Becomes([Cur EXCEPT !.pc = "done", !.result = Pairs(emoji_counter)])

q3_memory_return ==
    /\ prog = "q3" /\ pc = "read"
    /\ Becomes([Cur EXCEPT !.pc = "done", !.result = Pairs(mention_counter),
                            !.twin = TwinReturn(@)])

\* The query runs over the whole file: lines 70-121 of q1_time.py.  A column
\* no line holds is a duckdb.Error (the query names `date` and `user`).
q1_time ==
    /\ prog = "q1" /\ pc = "done" /\ time.pc = "read"
    /\ IF {"date", "user"} \subseteq time.columns
       THEN \E r \in q1_time_results(time.parsed) :
                Becomes([Cur EXCEPT !.time.pc = "done", !.time.result = r])
       ELSE Becomes([Cur EXCEPT !.time.pc = "error"])

\* Lines 92-115 of q2_time.py.
q2_time ==
    /\ prog = "q2" /\ pc = "done" /\ time.pc = "read"
    /\ IF {"content", "renderedContent"} \subseteq time.columns
       THEN Becomes([Cur EXCEPT !.time.pc = "done",
                                !.time.result = Pairs(time.emoji_counter)])
       ELSE Becomes([Cur EXCEPT !.time.pc = "error"])

Init == \E p \in {"q1", "q2", "q3"} : Is(Start(p, MaxLines))

Next ==
    \/ \E ln \in Q1Lines : q1_memory_line(ln)
    \/ \E ln \in Q2Lines : q2_memory_line(ln)
    \/ \E ln \in Q3Lines : q3_memory_line(ln)
    \/ q1_memory_return
    \/ q2_memory_return
    \/ q3_memory_return
    \/ q1_time
    \/ q2_time

Spec == Init /\ [][Next]_vars

----------------------------------------------------------------------------
(* Runs that have already read a file prefix holding up to NumRankKeys keys, *)
(* and read at most one more record before they return.                    *)

RankKeys == 1..NumRankKeys

\* A record that holds the keys ks (one key in q1_memory).
KeyLine(p, ks) ==
    CASE p = "q1" -> Q1Rec(Iso(ks[1], 0, TRUE), Dict(Name(1)))
      [] p = "q2" -> Q2Rec(Str([i \in DOMAIN ks |-> Emoji(ks[i])]), Absent)
      [] p = "q3" -> Q3Rec(List([i \in DOMAIN ks |-> Dict(Name(ks[i]))]))

\* n keys, first seen in ascending or in descending order, one record each;
\* then one more record for each key from the a-th first seen on.
Order(n, rev) == [i \in 1..n |-> IF rev THEN n + 1 - i ELSE i]

Prefix(p, n, a, rev) ==
    [i \in 1..n |-> KeyLine(p, <<Order(n, rev)[i]>>)]
    \o [i \in 1..(n + 1 - a) |-> KeyLine(p, <<Order(n, rev)[a + i - 1]>>)]

\* The one further record holds one key, two keys, or one key twice and then
\* another; its keys are among the two with the lowest numbers and those
\* numbered from TopN - 1 on (first or last seen in the prefix, or new).
LineKeys == {1, 2} \cup (TopN - 1)..NumRankKeys

RankLines(p) ==
    {KeyLine(p, <<k>>) : k \in RankKeys}
    \cup (IF p = "q1" THEN {}
          ELSE {KeyLine(p, <<k, j>>) : k \in LineKeys, j \in LineKeys}
               \cup {KeyLine(p, <<j, j, k>>) : k \in LineKeys, j \in LineKeys})

InitRank ==
    \E p \in {"q1", "q2", "q3"}, n \in (TopN - 1)..NumRankKeys, rev \in BOOLEAN :
        \E a \in 1..(n + 1) :
            LET lines == Prefix(p, n, a, rev)
            IN  Is(Run(Start(p, Len(lines) + 1), lines))

NextRank ==
    \/ \E ln \in RankLines("q1") : q1_memory_line(ln)
    \/ \E ln \in RankLines("q2") : q2_memory_line(ln)
    \/ \E ln \in RankLines("q3") : q3_memory_line(ln)
    \/ q1_memory_return
    \/ q2_memory_return
    \/ q3_memory_return

SpecRank == InitRank /\ [][NextRank]_vars

----------------------------------------------------------------------------
(* Reading the state *)

Now == Table(prog, Cur.tables)
Before == Table(prog, prev)

RECURSIVE Sum(_)
Sum(c) == IF c = <<>> THEN 0 ELSE Head(c).n + Sum(Tail(c))

\* Where key k stands in a list of pairs or of items, or in `seen`.
Returned == {result[i][1] : i \in DOMAIN result}
SeenAt(k) == CHOOSE i \in DOMAIN seen : seen[i] = k
AuthorAt(d, u) == CHOOSE i \in DOMAIN authors : authors[i] = <<d, u>>

\* The full ranking of a table, and the place of a key in it.
Ranking(c) == most_common(c, Len(c))

\* How many occurrences of k the last line added.
Gain(k) == Get(Now, k) - Get(Before, k)

----------------------------------------------------------------------------
(* C1: each function returns min(10, number of distinct keys) entries; they *)
(* are keys of its table whose count is >= the count of every key it does   *)
(* not return, in non-increasing order of count; q2_memory and q3_memory    *)
(* report each key's final count next to it.                                *)
TopTenByCount ==
    pc = "done" =>
        /\ Len(result) = Min(TopN, Cardinality(Keys(Now)))
        /\ Cardinality(Returned) = Len(result)
        /\ Returned \subseteq Keys(Now)
        /\ \A k \in Returned, x \in Keys(Now) \ Returned : Get(Now, k) >= Get(Now, x)
        /\ \A i, j \in DOMAIN result :
              i < j => Get(Now, result[i][1]) >= Get(Now, result[j][1])
        /\ prog # "q1" => \A i \in DOMAIN result : result[i][2] = Get(Now, result[i][1])

\* A run that returns ten of eleven or more keys, whose counts differ.
TopTenByCountWitness ==
    /\ pc = "done"
    /\ Len(Now) > TopN
    /\ Len(result) = TopN
    /\ \E k \in Returned, x \in Keys(Now) \ Returned : Get(Now, k) > Get(Now, x)
    /\ \E i, j \in DOMAIN result : Get(Now, result[i][1]) > Get(Now, result[j][1])

(* C2: among keys with equal final counts the one first observed earlier    *)
(* in the stream is ranked higher, and when the tie straddles the 10th      *)
(* position the earlier one is the one returned.                            *)
TiesByFirstObserved ==
    pc = "done" =>
        /\ \A i, j \in DOMAIN result :
              (i < j /\ Get(Now, result[i][1]) = Get(Now, result[j][1]))
                  => SeenAt(result[i][1]) < SeenAt(result[j][1])
        /\ \A k \in Returned, x \in Keys(Now) \ Returned :
              Get(Now, k) = Get(Now, x) => SeenAt(k) < SeenAt(x)

\* A run whose 10th returned key ties with a key that is not returned, and
\* in which the keys were not all first seen in the order of the ranking.
TiesByFirstObservedWitness ==
    /\ pc = "done"
    /\ Len(result) = TopN
    /\ \E x \in Keys(Now) \ Returned : Get(Now, x) = Get(Now, result[TopN][1])
    /\ \E i, j \in DOMAIN result :
          i < j /\ Get(Now, result[i][1]) = Get(Now, result[j][1])
    /\ \E i, j \in DOMAIN result : i < j /\ SeenAt(result[i][1]) > SeenAt(result[j][1])

(* C3: every (date, author) pair q1_memory returns names an author with the *)
(* highest nested count for that date, and among the authors tied for it    *)
(* the one first observed under that date.                                  *)
TopAuthorPerDate ==
    (pc = "done" /\ prog = "q1") =>
        \A i \in DOMAIN result :
            LET d == result[i][1]
                u == result[i][2]
                c == Users(date_user_counts, d)
            IN  /\ u \in Keys(c)
                /\ \A v \in Keys(c) : Get(c, u) >= Get(c, v)
                /\ \A v \in Keys(c) \ {u} :
                      Get(c, u) = Get(c, v) => AuthorAt(d, u) < AuthorAt(d, v)

\* q1_memory returns a date under which two authors tie for the highest count.
TopAuthorPerDateWitness ==
    /\ pc = "done" /\ prog = "q1"
    /\ \E i \in DOMAIN result :
          LET c == Users(date_user_counts, result[i][1])
          IN  \E v \in Keys(c) \ {result[i][2]} : Get(c, v) = Get(c, result[i][2])

(* C4: once the file is open, no line's content makes q1_memory, q2_memory  *)
(* or q3_memory abort: whatever the line holds, the run goes on to the next *)
(* line and ends by returning a list.                                       *)
NoLineAborts == pc # "raised"

(* C5: a line that takes the skip branch (`continue`, or the except clause, *)
(* at any point of its handling) leaves every count table as it was before  *)
(* the line.                                                                *)
SkippedLineCountsNothing ==
    (line # NoLine /\ how \in {"continue", "except"}) =>
        (Cur.tables = prev /\ pc # "raised")

(* C6: for every date in date_counts the counts of date_user_counts[date]   *)
(* add up to date_counts[date]: no line increments one table without the    *)
(* other.                                                                   *)
NestedSumsMatch ==
    prog = "q1" =>
        \A d \in Keys(date_counts) :
            Sum(Users(date_user_counts, d)) = Get(date_counts, d)

(* C7: for an input with at least one record, after the pass the counts of  *)
(* the function's table add up to the number of records whose key           *)
(* extraction gave a non-empty result.                                      *)
SumIsRecordCount ==
    (pc = "done" /\ line # NoLine) => Sum(Now) = nonempty

\* C7 as amended: the counts add up to the number of key occurrences the
\* pass extracted (one per counted record in q1_memory; every emoji match in
\* q2_memory; in q3_memory every mention with a non-empty username that the
\* loop reached, those reached before a later entry made the line be skipped
\* included).
SumIsOccurrenceCount ==
    (pc = "done" /\ line # NoLine) => Sum(Now) = observed

\* A finished run in which some record held more than one occurrence.
SumIsOccurrenceCountWitness ==
    /\ pc = "done" /\ line # NoLine
    /\ nonempty >= 1
    /\ observed > nonempty
    /\ Sum(Now) = observed

(* C8: in q2_memory and q3_memory the count reported for a key is the       *)
(* number of its occurrences over all successfully processed records,       *)
(* repeated occurrences inside one record each counted.                     *)
CountIsOccurrences ==
    (pc = "done" /\ prog \in {"q2", "q3"}) =>
        \A i \in DOMAIN result :
            /\ result[i][1] \in DOMAIN ok_occ
            /\ result[i][2] = ok_occ[result[i][1]]

(* C9: a record that contributes to key K never makes K's position in the   *)
(* ranking worse than it was before the record, also when the record        *)
(* contributes to several keys at once.                                     *)
KeysOf(items) == {items[i].key : i \in DOMAIN items}
PlaceIn(items, k) == CHOOSE i \in DOMAIN items : items[i].key = k

\* Key k stands in ranking `new` no later than in ranking `old`, and stays
\* among the first TopN if it was.
NotWorse(old, new, k) ==
    /\ PlaceIn(new, k) <= PlaceIn(old, k)
    /\ PlaceIn(old, k) <= TopN => PlaceIn(new, k) <= TopN

RankNeverDrops ==
    line # NoLine =>
        LET old == Ranking(Before)
            new == Ranking(Now)
        IN  \A k \in Keys(Before) : Gain(k) > 0 => NotWorse(old, new, k)

\* C9 as amended: the same, for records that give no other key more
\* occurrences than they give K.
RankNeverDropsUnlessOutgained ==
    line # NoLine =>
        LET old == Ranking(Before)
            new == Ranking(Now)
        IN  \A k \in Keys(Before) :
                (Gain(k) > 0 /\ \A j \in Keys(Now) : Gain(j) <= Gain(k))
                    => NotWorse(old, new, k)

\* A record that contributes to two keys moved one of them up into the ten
\* returned keys.
RankNeverDropsWitness ==
    /\ line # NoLine /\ pc = "read"
    /\ \E k \in Keys(Before) :
          /\ Gain(k) > 0
          /\ \E j \in Keys(Now) \ {k} : Gain(j) > 0
          /\ \A j \in Keys(Now) : Gain(j) <= Gain(k)
          /\ PlaceIn(Ranking(Before), k) > TopN
          /\ PlaceIn(Ranking(Now), k) <= TopN

(* C10: when a record that contributes to K brings K into the ten returned  *)
(* keys and pushes out the key that held the last returned position, K's    *)
(* new count is strictly greater than that key's count.                     *)

\* The pairs <<K, D>>: the last line contributed to K and brought it into
\* the ten returned keys, and D, which held the last returned position, is
\* no longer among them.
Displacements ==
    IF line = NoLine \/ Len(Before) < TopN THEN {}
    ELSE LET old == most_common(Before, TopN)
             new == KeysOf(most_common(Now, TopN))
             d == old[TopN].key
         IN  IF d \in new THEN {}
             ELSE {<<k, d>> : k \in {x \in new \ KeysOf(old) : Gain(x) > 0}}

DisplacesOnlyByMore ==
    \A kd \in Displacements : Get(Now, kd[1]) > Get(Now, kd[2])

\* C10 as amended: K's new count is at least that key's count, and equals it
\* only when K was first observed before that key.
DisplacesByMoreOrEarlier ==
    \A kd \in Displacements :
        \/ Get(Now, kd[1]) > Get(Now, kd[2])
        \/ Get(Now, kd[1]) = Get(Now, kd[2]) /\ SeenAt(kd[1]) < SeenAt(kd[2])

\* A record brought K level with the 10th key, and K, first observed
\* earlier, took its place.
DisplacesByMoreOrEarlierWitness ==
    /\ pc = "read"
    /\ \E kd \in Displacements :
          /\ Get(Now, kd[1]) = Get(Now, kd[2])
          /\ SeenAt(kd[1]) < SeenAt(kd[2])

----------------------------------------------------------------------------
(* The DuckDB variants against the streaming ones *)

\* A list q1_memory returned, written with the values a query row holds.
AsRows(r) == [i \in DOMAIN r |-> <<r[i][1], Name(r[i][2])>>]

\* C11: over a file that q1_time and q1_memory both accept, the two return
\* the same sequence of (date, author) pairs in the same order.
Q1TimeEqualsMemory ==
    (prog = "q1" /\ pc = "done" /\ time.pc = "done") => time.result = AsRows(result)

\* C12: over a file that q2_time and q2_memory both accept, the two return
\* the same sequence of (emoji, count) pairs, also when a record's content
\* is null or "" and its renderedContent carries text.
Q2TimeEqualsMemory ==
    (prog = "q2" /\ pc = "done" /\ time.pc = "done") => time.result = result

\* C13: the list q1_time returns is ordered by tweet volume: of any two
\* returned pairs, the one whose date has more tweets comes first.
Q1TimeByVolume ==
    (prog = "q1" /\ time.pc = "done") =>
        LET tt == total_tweets(time.parsed)
            r == time.result
        IN  \A i, j \in DOMAIN r :
                tt[SqlDate(r[i][1])] > tt[SqlDate(r[j][1])] => i < j

----------------------------------------------------------------------------
(* The streaming functions: empty input, absent fields, growth of the tables *)

\* C14: on a file with no lines q1_memory, q2_memory and q3_memory each
\* return the empty list and raise nothing; no table gets an entry, so
\* q1_memory resolves a top author for no date.
EmptyFileEmptyList ==
    (line = NoLine /\ pc # "read") =>
        /\ pc = "done"
        /\ result = <<>>
        /\ Cur.tables = Empty

EmptyFileEmptyListWitness ==
    prog = "q1" /\ pc = "done" /\ line = NoLine /\ more = MaxLines

\* C15: q3_memory over two streams that differ only in records whose
\* mentionedUsers is [] in one and absent in the other builds the same
\* table and returns the same list, and such a record adds no observation.
EmptyMentionsAsAbsent ==
    prog = "q3" =>
        /\ twin.pc = pc
        /\ twin.mention_counter = mention_counter
        /\ twin.result = result
        /\ line \in {Q3Rec(List(<<>>)), Q3Rec(Absent)} =>
                mention_counter = prev.mention_counter

EmptyMentionsAsAbsentWitness ==
    /\ prog = "q3" /\ pc = "done" /\ twin.pc = "done"
    /\ line = Q3Rec(List(<<>>))
    /\ result # <<>>

\* A table holds exactly the keys ks, each once and with a count >= 1.
HoldsExactly(c, ks) ==
    /\ Keys(c) = ks
    /\ Len(c) = Cardinality(ks)
    /\ \A i \in DOMAIN c : c[i].n >= 1

\* No key of table `old` is missing from table `new` or has a lower count there.
GrownFrom(old, new) ==
    \A i \in DOMAIN old : Has(new, old[i].key) /\ Get(new, old[i].key) >= old[i].n

\* C16: in every state of the pass the keys of each count table are exactly
\* the distinct keys observed so far, one entry per key however often it was
\* observed, every count is >= 1, and reading a line removes no key and
\* lowers no count (the nested tables of q1_memory included).
TablesGrowWithDistinctKeys ==
    /\ HoldsExactly(Now, {seen[i] : i \in DOMAIN seen})
    /\ GrownFrom(Before, Now)
    /\ prog = "q1" =>
        /\ Keys(date_user_counts) = Keys(date_counts)
        /\ Len(date_user_counts) = Len(date_counts)
        /\ \A d \in Keys(date_user_counts) :
            /\ HoldsExactly(Users(date_user_counts, d),
                            {authors[i][2] : i \in {j \in DOMAIN authors : authors[j][1] = d}})
            /\ GrownFrom(Users(prev.date_user_counts, d), Users(date_user_counts, d))
        /\ \A d \in Keys(prev.date_user_counts) : Has(date_user_counts, d)

\* A key was observed again: the table is smaller than the number of
\* observations.
TablesGrowWithDistinctKeysWitness ==
    /\ pc = "read" /\ line # NoLine
    /\ Len(Now) >= 2
    /\ observed > Len(Now)
    /\ \E k \in Keys(Before) : Get(Now, k) > Get(Before, k)

\* C17: when q1_memory leaves the loop with the file exhausted, the
\* selection of lines 105-114 finds an author for every top date (no
\* IndexError), returns one pair per top date, and leaves date_counts and
\* date_user_counts as they were.
SelectionFindsAuthors ==
    [][(prog = "q1" /\ pc = "read" /\ pc' # "read" /\ more' = more) =>
            /\ pc' = "done"
            /\ date_counts' = date_counts
            /\ date_user_counts' = date_user_counts
            /\ Len(result') = Len(top_10_dates(date_counts))
            /\ \A i \in DOMAIN result' : Users(date_user_counts, result'[i][1]) # <<>>
      ]_vars

\* q1_memory returned a list of two or more dates.
SelectionFindsAuthorsWitness ==
    prog = "q1" /\ pc = "done" /\ Len(result) >= 2

====
